---- MODULE Spec2Model ----
(***************************************************************************)
(* A model of the arena-backed JSON library (src/unnamed/part_000): the    *)
(* chained bump-pointer arena, the growable buffer macro array_append, the *)
(* recursive-descent decoder and the encoder.                              *)
(*                                                                         *)
(* Memory is modelled at the byte level where the code moves bytes: every  *)
(* arena allocation is a zero-filled byte sequence keyed by its address,   *)
(* structs are laid out as on an LP64 little-endian build (size_t and      *)
(* pointers 8 bytes, the JsonType enum 4 bytes followed by 4 bytes of      *)
(* padding).  Characters are their ASCII codes.                            *)
(***************************************************************************)
EXTENDS Integers, Sequences, FiniteSets, TLC

VARIABLES
    mem,         \* [arena, heap]: the block chain of DEFAULT_ARENA and the bytes of every allocation
    regions,     \* arena specification: the regions returned so far, in call order
    lastAlloc,   \* arena specification: the outcome of the latest arena_alloc call
    buf,         \* buffer specification: address of the Array(T) struct being appended to
    elemKind,    \* buffer specification: element type of that buffer
    items,       \* buffer specification: the items appended so far, in order
    input,       \* decoder specification: the bytes of the view handed to decode_json
    origin,      \* decoder specification: how the input was produced (a tree that was rendered, or raw bytes)
    phase,       \* decoder specification: "start", "decoded", "encoded", "redecoded"
    run,         \* decoder specification: outcome of decode_json(input)
    text,        \* decoder specification: outcome of encode_json on the decoded value
    rerun        \* decoder specification: outcome of decode_json on the encoded text

vars == <<mem, regions, lastAlloc, buf, elemKind, items, input, origin, phase, run, text, rerun>>

(***************************************************************************)
(* Bounds of the model.                                                    *)
(***************************************************************************)
\* blocks the chain may hold when a call of the arena specification begins
MaxChain == 3
\* arena_alloc calls per behaviour of the arena specification
MaxAllocs == 3

(***************************************************************************)
(* Program constants.                                                      *)
(***************************************************************************)
ARENA_DEFAULT_CAP == 1024
ARRAY_INIT_CAP == 10
\* sizeof(String) = sizeof(JsonArray) = sizeof(JsonObject): len, cap, ptr
SizeofArray == 24
\* sizeof(JsonNumber) = sizeof(double)
SizeofNumber == 8
\* sizeof(char)
SizeofChar == 1
\* sizeof(JsonValue): type, padding, value
SizeofValue == 16
\* sizeof(JsonObjectProperty): key, value
SizeofProperty == 24
\* the pool of block k starts at address k * PoolStride (NULL is address 0)
PoolStride == 65536

(***************************************************************************)
(* The arena.                                                              *)
(***************************************************************************)
align(addr, alignment) ==
    LET rem == addr % alignment
    IN  IF rem = 0 THEN addr ELSE (addr - rem) + alignment

\* A block after arena_new: its pool is uninitialised, its next link is NULL
\* (the chain is the sequence mem.arena, the last block's next being NULL).
arena_new(cap) == [cap |-> align(cap, 8), used |-> 0]

PoolAddr(k) == k * PoolStride

Zeros(n) == [i \in 1..n |-> 0]

EmptyMem(cap) == [arena |-> <<arena_new(cap)>>, heap |-> <<>>]

\* memset(ptr, 0, size) on a fresh region: the bytes of the allocation.
ZeroFill(heap, ptr, size) ==
    IF size = 0 THEN heap ELSE (ptr :> Zeros(size)) @@ heap

\* arena_alloc without "size = align(size, 8)"
RECURSIVE arena_alloc_unaligned(_, _, _)
arena_alloc_unaligned(M, i, size) ==
    LET blk == M.arena[i]
    IN  IF (blk.used + size) < blk.cap
        THEN [st   |-> "ok",
              mem  |-> [arena |-> [M.arena EXCEPT ![i].used = @ + size],
                        heap  |-> ZeroFill(M.heap, PoolAddr(i) + blk.used, size)],
              ptr  |-> PoolAddr(i) + blk.used,
              blk  |-> i,
              off  |-> blk.used,
              size |-> size]
        ELSE IF i < Len(M.arena)
             THEN arena_alloc_unaligned(M, i + 1, size)
             ELSE IF blk.used = 0
                  THEN [st |-> "noreturn", mem |-> M, ptr |-> 0, blk |-> 0, off |-> 0, size |-> size]
                  ELSE arena_alloc_unaligned([M EXCEPT !.arena = Append(@, arena_new(blk.cap))], i + 1, size)

\* arena_alloc(arena, size), arena being block i of the chain.  When the last
\* block of the chain is fresh (used = 0) and the request does not fit it, the
\* code appends another fresh block of the same cap and recurses, and so on
\* without end: the call does not return ("noreturn").
RECURSIVE arena_alloc(_, _, _)
arena_alloc(M, i, size0) ==
    LET size == align(size0, 8)
        blk  == M.arena[i]
    IN  IF (blk.used + size) < blk.cap
        THEN [st   |-> "ok",
              mem  |-> [arena |-> [M.arena EXCEPT ![i].used = @ + size],
                        heap  |-> ZeroFill(M.heap, PoolAddr(i) + blk.used, size)],
              ptr  |-> PoolAddr(i) + blk.used,
              blk  |-> i,
              off  |-> blk.used,
              size |-> size]
        ELSE IF i < Len(M.arena)
             THEN arena_alloc(M, i + 1, size)
             ELSE IF blk.used = 0
                  THEN [st |-> "noreturn", mem |-> M, ptr |-> 0, blk |-> 0, off |-> 0, size |-> size]
                  ELSE arena_alloc([M EXCEPT !.arena = Append(@, arena_new(blk.cap))], i + 1, size)

\* _new(size): arena_alloc on DEFAULT_ARENA.
New(M, size) == arena_alloc(M, 1, size)

(***************************************************************************)
(* Arena specification: a caller issuing arena_alloc requests.             *)
(***************************************************************************)
\* capacities handed to arena_new (arena_default_new uses ARENA_DEFAULT_CAP)
ArenaCaps == {ARENA_DEFAULT_CAP, 60}

\* request sizes: the program's own (8, 24, 160, 240, 1280) and the edges of a block
AllocSizes == {1, 8, 24, 56, 64, 160, 240, 1016, 1024, 1280}

NoAlloc == [st |-> "none", ptr |-> 0, blk |-> 0, off |-> 0, size |-> 0, req |-> 0, pre |-> <<>>]

NoRun == [st |-> "none"]

InitArena ==
    /\ \E cap \in ArenaCaps : mem = EmptyMem(cap)
    /\ regions = <<>>
    /\ lastAlloc = NoAlloc
    /\ buf = 0 /\ elemKind = "none" /\ items = <<>>
    /\ input = <<>> /\ origin = "none" /\ phase = "arena"
    /\ run = NoRun /\ text = NoRun /\ rerun = NoRun

\* One call arena_alloc(DEFAULT_ARENA, size) by the caller.  A call that does
\* not return ends the behaviour.
ArenaAllocCall(size) ==
    /\ phase = "arena"
    /\ lastAlloc.st # "noreturn"
    /\ Len(regions) < MaxAllocs
    /\ Len(mem.arena) < MaxChain
    /\ LET r == arena_alloc(mem, 1, size)
       IN  /\ mem' = r.mem
           /\ lastAlloc' = [st |-> r.st, ptr |-> r.ptr, blk |-> r.blk, off |-> r.off,
                            size |-> r.size, req |-> size, pre |-> mem.arena]
           /\ regions' = IF r.st = "ok"
                         THEN Append(regions, [blk |-> r.blk, off |-> r.off, size |-> r.size])
                         ELSE regions
    /\ UNCHANGED <<buf, elemKind, items, input, origin, phase, run, text, rerun>>

NextArena == \E size \in AllocSizes : ArenaAllocCall(size)

SpecArena == InitArena /\ [][NextArena]_vars

\* C7: every arena_alloc call returns: a zero-initialized region of at least
\* the requested size, at an 8-byte-aligned offset, taken from the first block
\* of the chain in which it fits, a block of the first block's capacity that is
\* at most one block past the chain the call started with.
C7_ArenaAllocAlwaysReturns ==
    lastAlloc.st # "none" =>
        /\ lastAlloc.st = "ok"
        /\ lastAlloc.size >= lastAlloc.req
        /\ lastAlloc.off % 8 = 0
        /\ lastAlloc.size > 0 => mem.heap[lastAlloc.ptr] = Zeros(lastAlloc.size)
        /\ lastAlloc.blk <= Len(lastAlloc.pre) + 1
        /\ mem.arena[lastAlloc.blk].cap = mem.arena[1].cap
        /\ \A k \in 1..(lastAlloc.blk - 1) :
               k <= Len(lastAlloc.pre) /\ ~(lastAlloc.pre[k].used + lastAlloc.size < lastAlloc.pre[k].cap)

\* C9: every returned region lies inside the pool of one block, every used
\* counter is a multiple of 8 and at most the block's cap, every block has the
\* first block's cap, and regions of distinct calls do not overlap.
C9_RegionsInsideOneBlock ==
    /\ \A i \in 1..Len(regions) :
           /\ regions[i].blk \in 1..Len(mem.arena)
           /\ regions[i].off + regions[i].size <= mem.arena[regions[i].blk].cap
    /\ \A k \in 1..Len(mem.arena) :
           /\ mem.arena[k].used % 8 = 0
           /\ mem.arena[k].used <= mem.arena[k].cap
           /\ mem.arena[k].cap = mem.arena[1].cap
    /\ \A i, j \in 1..Len(regions) :
           (i < j /\ regions[i].blk = regions[j].blk) =>
               \/ regions[i].off + regions[i].size <= regions[j].off
               \/ regions[j].off + regions[j].size <= regions[i].off

\* C9 witness: regions were returned from two blocks of the chain.
C9_Witness ==
    /\ Len(mem.arena) >= 2
    /\ \E i, j \in 1..Len(regions) : regions[i].blk = 1 /\ regions[j].blk = 2 /\ regions[j].size > 0

(***************************************************************************)
(* Bytes, words and structs in arena memory.                               *)
(***************************************************************************)
\* the k bytes of n, least significant first
RECURSIVE LE(_, _)
LE(n, k) == IF k = 0 THEN <<>> ELSE <<n % 256>> \o LE(n \div 256, k - 1)

\* the number a little-endian byte sequence denotes
RECURSIVE FromLE(_)
FromLE(b) == IF b = <<>> THEN 0 ELSE b[1] + 256 * FromLE(Tail(b))

\* the n bytes at offset off of the allocation at address a
Load(heap, a, off, n) == SubSeq(heap[a], off + 1, off + n)

\* the allocation at address a with bytes written at offset off
Store(heap, a, off, bytes) ==
    [heap EXCEPT ![a] = SubSeq(@, 1, off) \o bytes \o SubSeq(@, off + Len(bytes) + 1, Len(@))]

\* Array(T) / String / JsonArray / JsonObject.properties: size_t len; size_t cap; T *ptr
ArrLen(heap, arr) == FromLE(Load(heap, arr, 0, 8))
ArrCap(heap, arr) == FromLE(Load(heap, arr, 8, 8))
ArrPtr(heap, arr) == FromLE(Load(heap, arr, 16, 8))

\* element i (from 0) of the buffer whose struct is at arr, as its esz bytes
ArrElem(heap, arr, i, esz) == Load(heap, ArrPtr(heap, arr), i * esz, esz)

\* the growth step of array_append: a is the region arena_alloc returned for
\* newcap elements
array_grow(M, arr, item, esz, newcap, a) ==
    IF a.st # "ok" THEN [st |-> a.st, mem |-> M]
    ELSE LET len == ArrLen(M.heap, arr)
             ptr == ArrPtr(M.heap, arr)
             \* (arr)->cap = ...
             h1  == Store(a.mem.heap, arr, 8, LE(newcap, 8))
             \* if ((arr)->len > 0) memmove(dst, (arr)->ptr, (arr)->len)
             h2  == IF len > 0 THEN Store(h1, a.ptr, 0, Load(M.heap, ptr, 0, len)) ELSE h1
             \* (arr)->ptr = dst
             h3  == Store(h2, arr, 16, LE(a.ptr, 8))
             \* (arr)->ptr[(arr)->len++] = (item)
             h4  == Store(Store(h3, a.ptr, len * esz, item), arr, 0, LE(len + 1, 8))
         IN  [st |-> "ok", mem |-> [arena |-> a.mem.arena, heap |-> h4]]

\* array_append(arr, item) for elements of esz = sizeof(*(arr)->ptr) bytes.
array_append(M, arr, item, esz) ==
    LET len == ArrLen(M.heap, arr)
        cap == ArrCap(M.heap, arr)
        ptr == ArrPtr(M.heap, arr)
    IN  IF cap < len + 1
        THEN array_grow(M, arr, item, esz, IF cap = 0 THEN ARRAY_INIT_CAP ELSE cap * 2,
                        arena_alloc(M, 1, (IF cap = 0 THEN ARRAY_INIT_CAP ELSE cap * 2) * esz))
        ELSE [st  |-> "ok",
              mem |-> [M EXCEPT !.heap = Store(Store(@, ptr, len * esz, item), arr, 0, LE(len + 1, 8))]]

(***************************************************************************)
(* The JSON value model.                                                   *)
(***************************************************************************)
JSON_NULL == 0
JSON_TRUE == 1
JSON_FALSE == 2
JSON_NUMBER == 3
JSON_STRING == 4
JSON_ARRAY == 5
JSON_OBJECT == 6

\* JsonValue {JsonType type; void *value;} as its 16 bytes, and back
ValueBytes(v) == LE(v.type, 4) \o Zeros(4) \o LE(v.value, 8)
ValueOf(b) == [type |-> FromLE(SubSeq(b, 1, 4)), value |-> FromLE(SubSeq(b, 9, 16))]

\* JsonObjectProperty {JsonString *key; JsonValue value;} as its 24 bytes, and back
PropertyBytes(p) == LE(p.key, 8) \o ValueBytes(p.value)
PropertyOf(b) == [key |-> FromLE(SubSeq(b, 1, 8)), value |-> ValueOf(SubSeq(b, 9, 24))]

\* JsonValue v = {0}
ZeroValue == [type |-> JSON_NULL, value |-> 0]

(***************************************************************************)
(* Buffer specification: a caller appending to one growable buffer.        *)
(***************************************************************************)
\* array_append calls per behaviour of the buffer specification
MaxAppends == 11

ElemSize(kind) ==
    CASE kind = "char" -> SizeofChar
      [] kind = "value" -> SizeofValue
      [] kind = "property" -> SizeofProperty

\* items a caller appends: two characters, two JsonValues, two properties
BufItems(kind) ==
    CASE kind = "char" -> {<<97>>, <<98>>}
      [] kind = "value" -> {ValueBytes([type |-> JSON_TRUE, value |-> 0]),
                            ValueBytes([type |-> JSON_STRING, value |-> PoolAddr(1) + 24])}
      [] kind = "property" -> {PropertyBytes([key |-> PoolAddr(1) + 24,
                                              value |-> [type |-> JSON_FALSE, value |-> 0]]),
                               PropertyBytes([key |-> PoolAddr(1) + 48,
                                              value |-> [type |-> JSON_STRING, value |-> PoolAddr(1) + 24]])}

\* String *s = new (String) / JsonArray *arr = new (JsonArray) / JsonObject *object = new (JsonObject)
InitBuf ==
    /\ elemKind \in {"char", "value", "property"}
    /\ LET a == New(EmptyMem(ARENA_DEFAULT_CAP), SizeofArray)
       IN  mem = a.mem /\ buf = a.ptr
    /\ items = <<>>
    /\ regions = <<>> /\ lastAlloc = NoAlloc
    /\ input = <<>> /\ origin = "none" /\ phase = "buffer"
    /\ run = NoRun /\ text = NoRun /\ rerun = NoRun

BufAppend(item) ==
    /\ phase = "buffer"
    /\ Len(items) < MaxAppends
    /\ LET r == array_append(mem, buf, item, ElemSize(elemKind))
       IN  /\ r.st = "ok"
           /\ mem' = r.mem
    /\ items' = Append(items, item)
    /\ UNCHANGED <<regions, lastAlloc, buf, elemKind, input, origin, phase, run, text, rerun>>

NextBuf == \E item \in BufItems(elemKind) : BufAppend(item)

SpecBuf == InitBuf /\ [][NextBuf]_vars

\* C3: after any sequence of array_append calls the buffer holds len = number
\* of appended items and, at every index i < len, the i-th appended item.
C3_GrowthPreservesContents ==
    phase = "buffer" =>
        /\ ArrLen(mem.heap, buf) = Len(items)
        /\ \A i \in 0..(Len(items) - 1) :
               ArrElem(mem.heap, buf, i, ElemSize(elemKind)) = items[i + 1]

(***************************************************************************)
(* The string view and the character helpers.                              *)
(*                                                                         *)
(* A decoding state s holds the view (the bytes in, of which pos are       *)
(* consumed: str->len = Len(in) - pos), the byte past that lies behind the *)
(* view's last byte in memory, the arena memory, and the process status    *)
(* st: "run", "abort" (a failed assert), "segv" (a read of unmapped        *)
(* memory) or "noreturn" (arena_alloc never returned).  oob records that   *)
(* the view was dereferenced while empty, failed that some production      *)
(* returned ErrResult.                                                     *)
(***************************************************************************)
\* ASCII codes of the character literals of the source
Ch == [nul |-> 0, tab |-> 9, lf |-> 10, cr |-> 13, sp |-> 32, quote |-> 34, comma |-> 44,
       minus |-> 45, dot |-> 46, d0 |-> 48, d1 |-> 49, d2 |-> 50, d9 |-> 57, colon |-> 58,
       lbrack |-> 91, rbrack |-> 93, a |-> 97, b |-> 98, e |-> 101, f |-> 102, l |-> 108,
       n |-> 110, r |-> 114, s |-> 115, t |-> 116, u |-> 117, x |-> 120,
       lbrace |-> 123, rbrace |-> 125]

\* what a read behind the view finds when that address is not readable
Unmapped == 256

is_whitespace(c) == c = Ch.lf \/ c = Ch.sp \/ c = Ch.tab \/ c = Ch.cr

is_digit(c) == c >= Ch.d0 /\ c <= Ch.d9

ViewLen(s) == Len(s.in) - s.pos

\* the value of *str->ptr
Cur(s) == IF s.pos < Len(s.in) THEN s.in[s.pos + 1] ELSE s.past

\* the effect of evaluating *str->ptr: inside the view none; behind it the
\* read is out of bounds and finds the byte past, or faults
Deref(s) ==
    IF s.pos < Len(s.in) THEN s
    ELSE [s EXCEPT !.oob = TRUE, !.st = IF s.past = Unmapped THEN "segv" ELSE @]

consume_char(s) ==
    IF ViewLen(s) > 0 THEN [s EXCEPT !.pos = @ + 1] ELSE [s EXCEPT !.st = "abort"]

RECURSIVE trim_left(_)
trim_left(s) ==
    IF ViewLen(s) > 0 /\ is_whitespace(Cur(s)) THEN trim_left(consume_char(s)) ELSE s

RECURSIVE consume_literal_loop(_, _, _)
consume_literal_loop(s, literal, i) ==
    IF i > Len(literal) THEN [s |-> s, ok |-> TRUE]
    ELSE IF Cur(s) # literal[i] THEN [s |-> s, ok |-> FALSE]
    ELSE consume_literal_loop(consume_char(s), literal, i + 1)

consume_literal(s, literal) ==
    IF ViewLen(s) < Len(literal) THEN [s |-> s, ok |-> FALSE]
    ELSE consume_literal_loop(s, literal, 1)

(***************************************************************************)
(* Results.                                                                *)
(***************************************************************************)
ErrResult(s) == [s |-> [s EXCEPT !.failed = TRUE], error |-> TRUE, value |-> ZeroValue]

OkResult(s, val) == [s |-> s, error |-> FALSE, value |-> val]

\* the process ended inside the call: there is no result
Dead(s) == [s |-> s, error |-> TRUE, value |-> ZeroValue]

(***************************************************************************)
(* Numbers.  A double is modelled as the exact decimal it was accumulated  *)
(* to: sign, mantissa m and e fraction digits (m / 10^e), trailing zeros   *)
(* of the fraction dropped; rounding of the binary format is not modelled. *)
(***************************************************************************)
RECURSIVE Normal(_)
Normal(d) == IF d.e > 0 /\ d.m % 10 = 0 THEN Normal([d EXCEPT !.m = @ \div 10, !.e = @ - 1]) ELSE d

\* the 8 bytes standing for the double d, and back
DoubleBytes(d) == LET c == Normal(d) IN LE((c.m * 16 + c.e) * 2 + (IF c.neg THEN 1 ELSE 0), 8)
DoubleOf(b) ==
    LET code == FromLE(b)
    IN  [neg |-> code % 2 = 1, m |-> code \div 32, e |-> (code \div 2) % 16]

(***************************************************************************)
(* The decoder.  Each function of the source is one operator named after   *)
(* it, followed by operators for its successive statements (suffixes       *)
(* _open, _alloc, ...), each taking the values computed so far.            *)
(***************************************************************************)
RECURSIVE decode_json_value(_)

decode_json_null(s) ==
    LET c == consume_literal(s, <<Ch.n, Ch.u, Ch.l, Ch.l>>)
    IN  IF ~c.ok THEN ErrResult(c.s) ELSE OkResult(c.s, [type |-> JSON_NULL, value |-> 0])

decode_json_true(s) ==
    LET c == consume_literal(s, <<Ch.t, Ch.r, Ch.u, Ch.e>>)
    IN  IF ~c.ok THEN ErrResult(c.s) ELSE OkResult(c.s, [type |-> JSON_TRUE, value |-> 0])

decode_json_false(s) ==
    LET c == consume_literal(s, <<Ch.f, Ch.a, Ch.l, Ch.s, Ch.e>>)
    IN  IF ~c.ok THEN ErrResult(c.s) ELSE OkResult(c.s, [type |-> JSON_FALSE, value |-> 0])

\* the while loop of decode_json_number without the "&& !fraction_part" of the '.' case
RECURSIVE number_loop_dots(_, _, _)
number_loop_dots(s, num, fraction_part) ==
    IF ~(ViewLen(s) > 0) THEN [s |-> s, error |-> FALSE, num |-> num]
    ELSE LET c == Cur(s)
         IN  IF c = Ch.comma \/ c = Ch.rbrack \/ c = Ch.rbrace \/ is_whitespace(c)
             THEN [s |-> s, error |-> FALSE, num |-> num]
             ELSE IF is_digit(c)
             THEN IF fraction_part
                  THEN number_loop_dots(consume_char(s),
                                        [num EXCEPT !.m = @ * 10 + (c - Ch.d0), !.e = @ + 1], fraction_part)
                  ELSE number_loop_dots(consume_char(s), [num EXCEPT !.m = @ * 10 + (c - Ch.d0)],
                                        fraction_part)
             ELSE IF c = Ch.dot
             THEN number_loop_dots(consume_char(s), num, TRUE)
             ELSE [s |-> s, error |-> TRUE, num |-> num]

\* the while loop of decode_json_number: num is m / 10^e, fraction_count is e + 1
RECURSIVE number_loop(_, _, _)
number_loop(s, num, fraction_part) ==
    IF ~(ViewLen(s) > 0) THEN [s |-> s, error |-> FALSE, num |-> num]
    ELSE LET c == Cur(s)
         IN  IF c = Ch.comma \/ c = Ch.rbrack \/ c = Ch.rbrace \/ is_whitespace(c)
             THEN [s |-> s, error |-> FALSE, num |-> num]
             ELSE IF is_digit(c)
             THEN IF fraction_part
                  THEN number_loop(consume_char(s),
                                   [num EXCEPT !.m = @ * 10 + (c - Ch.d0), !.e = @ + 1], fraction_part)
                  ELSE number_loop(consume_char(s), [num EXCEPT !.m = @ * 10 + (c - Ch.d0)], fraction_part)
             ELSE IF c = Ch.dot /\ ~fraction_part
             THEN number_loop(consume_char(s), num, TRUE)
             ELSE [s |-> s, error |-> TRUE, num |-> num]

\* *json_num_val = num, in the region a that new (JsonNumber) returned
number_store(s, num, a) ==
    IF a.st # "ok" THEN Dead([s EXCEPT !.st = a.st])
    ELSE OkResult([s EXCEPT !.mem = [a.mem EXCEPT !.heap = Store(@, a.ptr, 0, DoubleBytes(num))]],
                  [type |-> JSON_NUMBER, value |-> a.ptr])

\* after the loop lp: if (is_negative) num *= -1; new (JsonNumber)
number_done(lp, is_negative) ==
    IF lp.error THEN ErrResult(lp.s)
    ELSE number_store(lp.s, [lp.num EXCEPT !.neg = is_negative], New(lp.s.mem, SizeofNumber))

number_digits(s1, is_negative) ==
    IF s1.st # "run" THEN Dead(s1)
    ELSE number_done(number_loop(s1, [neg |-> FALSE, m |-> 0, e |-> 0], FALSE), is_negative)

\* if (*str->ptr == '-') { is_negative = true; consume_char(str); }
number_sign(s0) ==
    IF s0.st # "run" THEN Dead(s0)
    ELSE number_digits(IF Cur(s0) = Ch.minus THEN consume_char(s0) ELSE s0, Cur(s0) = Ch.minus)

decode_json_number(s) == number_sign(Deref(s))

\* One pass of the body of the while loop of decode_json_string, str being
\* the address of the String; the pass yields s, found_end and more.

\* array_append(s, c), whose outcome is ap; consume_char(str);
string_append(s, str, ap) ==
    IF ap.st # "ok" THEN [s |-> [s EXCEPT !.st = ap.st], found_end |-> FALSE, more |-> FALSE]
    ELSE [s |-> consume_char([s EXCEPT !.mem = ap.mem]), found_end |-> FALSE, more |-> TRUE]

\* char c = *str->ptr; if (c == '\"') { found_end = true; consume_char(str); break; }
string_char(s, str) ==
    IF Cur(s) = Ch.quote THEN [s |-> consume_char(s), found_end |-> TRUE, more |-> FALSE]
    ELSE string_append(s, str, array_append(s.mem, str, <<Cur(s)>>, SizeofChar))

\* while (str->len > 0) { ... }, after a pass that yielded it
RECURSIVE string_loop(_, _)
string_loop(it, str) ==
    IF it.more /\ ViewLen(it.s) > 0 THEN string_loop(string_char(it.s, str), str)
    ELSE [s |-> it.s, found_end |-> it.found_end]

\* if (!found_end) return ErrResult; ... return OkResult(json_string)
string_close(lp, str) ==
    IF lp.s.st # "run" THEN Dead(lp.s)
    ELSE IF ~lp.found_end THEN ErrResult(lp.s)
    ELSE OkResult(lp.s, [type |-> JSON_STRING, value |-> str])

\* String *s = new (String), the region a, and the loop
string_body(s1, a) ==
    IF a.st # "ok" THEN Dead([s1 EXCEPT !.st = a.st])
    ELSE string_close(string_loop([s |-> [s1 EXCEPT !.mem = a.mem], found_end |-> FALSE, more |-> TRUE],
                                  a.ptr),
                      a.ptr)

string_alloc(s1) ==
    IF s1.st # "run" THEN Dead(s1) ELSE string_body(s1, New(s1.mem, SizeofArray))

\* if (*str->ptr != '\"') return ErrResult; consume_char(str);
string_open(s0) ==
    IF s0.st # "run" THEN Dead(s0)
    ELSE IF Cur(s0) # Ch.quote THEN ErrResult(s0)
    ELSE string_alloc(consume_char(s0))

decode_json_string(s) == string_open(Deref(s))

\* the while loop of decode_json_array, arr being the address of the JsonArray;
\* error: the loop left the function with return ErrResult
\* One pass of the body of the while loop of decode_json_array yields the view
\* s, whether the function returned ErrResult (error), and whether the loop
\* goes on to test its condition again (more) or was left by break or return.

\* consume_char(str) after the ','
array_next(s3, arr) ==
    IF s3.st # "run" THEN [s |-> s3, error |-> TRUE, more |-> FALSE]
    ELSE [s |-> s3, error |-> FALSE, more |-> TRUE]

\* trim_left(str); if (*str->ptr != ',') break; consume_char(str);
array_comma(s2, arr) ==
    IF s2.st # "run" THEN [s |-> s2, error |-> TRUE, more |-> FALSE]
    ELSE IF Cur(s2) # Ch.comma THEN [s |-> s2, error |-> FALSE, more |-> FALSE]
    ELSE array_next(consume_char(s2), arr)

\* array_append(arr, res.value), whose outcome is ap
array_appended(s, arr, ap) ==
    IF ap.st # "ok" THEN [s |-> [s EXCEPT !.st = ap.st], error |-> TRUE, more |-> FALSE]
    ELSE array_comma(Deref(trim_left([s EXCEPT !.mem = ap.mem])), arr)

\* JsonResult res = decode_json_value(str); if (res.error) return ErrResult;
array_element(res, arr) ==
    IF res.s.st # "run" THEN [s |-> res.s, error |-> TRUE, more |-> FALSE]
    ELSE IF res.error THEN [s |-> ErrResult(res.s).s, error |-> TRUE, more |-> FALSE]
    ELSE array_appended(res.s, arr, array_append(res.s.mem, arr, ValueBytes(res.value), SizeofValue))

\* trim_left(str); if (*str->ptr == ']') break;
array_item(s1, arr) ==
    IF s1.st # "run" THEN [s |-> s1, error |-> TRUE, more |-> FALSE]
    ELSE IF Cur(s1) = Ch.rbrack THEN [s |-> s1, error |-> FALSE, more |-> FALSE]
    ELSE array_element(decode_json_value(s1), arr)

\* while (str->len > 0) { ... }, after a pass that yielded it
RECURSIVE array_loop(_, _)
array_loop(it, arr) ==
    IF it.more /\ ViewLen(it.s) > 0 THEN array_loop(array_item(Deref(trim_left(it.s)), arr), arr)
    ELSE [s |-> it.s, error |-> it.error]

\* consume_char(str) after the ']' and return OkResult(json_arr)
array_result(s3, arr) ==
    IF s3.st # "run" THEN Dead(s3) ELSE OkResult(s3, [type |-> JSON_ARRAY, value |-> arr])

\* if (*str->ptr != ']') return ErrResult; consume_char(str);
array_close(s2, arr) ==
    IF s2.st # "run" THEN Dead(s2)
    ELSE IF Cur(s2) # Ch.rbrack THEN ErrResult(s2)
    ELSE array_result(consume_char(s2), arr)

\* after the loop lp, without "if (result.error) return ErrResult" in the loop
array_done_lenient(lp, arr) ==
    IF lp.s.st # "run" THEN Dead(lp.s)
    ELSE array_close(Deref(lp.s), arr)

\* after the loop lp
array_done(lp, arr) ==
    IF lp.s.st # "run" THEN Dead(lp.s)
    ELSE IF lp.error THEN ErrResult(lp.s)
    ELSE array_close(Deref(lp.s), arr)

\* JsonArray *arr = new (JsonArray), the region a, and the loop
array_body(s1, a) ==
    IF a.st # "ok" THEN Dead([s1 EXCEPT !.st = a.st])
    ELSE array_done(array_loop([s |-> [s1 EXCEPT !.mem = a.mem], error |-> FALSE, more |-> TRUE], a.ptr),
                    a.ptr)

array_alloc(s1) ==
    IF s1.st # "run" THEN Dead(s1) ELSE array_body(s1, New(s1.mem, SizeofArray))

\* if (*str->ptr != '[') return ErrResult; consume_char(str);
array_open(s0) ==
    IF s0.st # "run" THEN Dead(s0)
    ELSE IF Cur(s0) # Ch.lbrack THEN ErrResult(s0)
    ELSE array_alloc(consume_char(s0))

decode_json_array(s) == array_open(Deref(s))

\* One pass of the body of the while loop of decode_json_object, object being
\* the address of the JsonObject (its properties buffer is its first member);
\* the pass yields s, error and more as in decode_json_array.

object_next(s5, object) ==
    IF s5.st # "run" THEN [s |-> s5, error |-> TRUE, more |-> FALSE]
    ELSE [s |-> s5, error |-> FALSE, more |-> TRUE]

\* trim_left(str); if (*str->ptr != ',') break; consume_char(str);
object_comma(s4, object) ==
    IF s4.st # "run" THEN [s |-> s4, error |-> TRUE, more |-> FALSE]
    ELSE IF Cur(s4) # Ch.comma THEN [s |-> s4, error |-> FALSE, more |-> FALSE]
    ELSE object_next(consume_char(s4), object)

\* array_append(&object->properties, property), whose outcome is ap
object_appended(s, object, ap) ==
    IF ap.st # "ok" THEN [s |-> [s EXCEPT !.st = ap.st], error |-> TRUE, more |-> FALSE]
    ELSE object_comma(Deref(trim_left([s EXCEPT !.mem = ap.mem])), object)

\* res = decode_json_value(str); if (res.error) return ErrResult; property.value = res.value;
object_value(res, key, object) ==
    IF res.s.st # "run" THEN [s |-> res.s, error |-> TRUE, more |-> FALSE]
    ELSE IF res.error THEN [s |-> ErrResult(res.s).s, error |-> TRUE, more |-> FALSE]
    ELSE object_appended(res.s, object,
                         array_append(res.s.mem, object,
                                      PropertyBytes([key |-> key, value |-> res.value]), SizeofProperty))

\* consume_char(str) after the ':'; trim_left(str);
object_after_colon(s3, key, object) ==
    IF s3.st # "run" THEN [s |-> s3, error |-> TRUE, more |-> FALSE]
    ELSE object_value(decode_json_value(trim_left(s3)), key, object)

\* if (*str->ptr != ':') return ErrResult; consume_char(str);
object_colon(s2, key, object) ==
    IF s2.st # "run" THEN [s |-> s2, error |-> TRUE, more |-> FALSE]
    ELSE IF Cur(s2) # Ch.colon THEN [s |-> ErrResult(s2).s, error |-> TRUE, more |-> FALSE]
    ELSE object_after_colon(consume_char(s2), key, object)

\* res = decode_json_string(str); if (res.error) return ErrResult; property.key = res.value.value;
object_key(res, object) ==
    IF res.s.st # "run" THEN [s |-> res.s, error |-> TRUE, more |-> FALSE]
    ELSE IF res.error THEN [s |-> ErrResult(res.s).s, error |-> TRUE, more |-> FALSE]
    ELSE object_colon(Deref(res.s), res.value.value, object)

\* trim_left(str); if (*str->ptr == '}') break;
object_item(s1, object) ==
    IF s1.st # "run" THEN [s |-> s1, error |-> TRUE, more |-> FALSE]
    ELSE IF Cur(s1) = Ch.rbrace THEN [s |-> s1, error |-> FALSE, more |-> FALSE]
    ELSE object_key(decode_json_string(s1), object)

\* while (str->len > 0) { ... }, after a pass that yielded it
RECURSIVE object_loop(_, _)
object_loop(it, object) ==
    IF it.more /\ ViewLen(it.s) > 0 THEN object_loop(object_item(Deref(trim_left(it.s)), object), object)
    ELSE [s |-> it.s, error |-> it.error]

object_result(s3, object) ==
    IF s3.st # "run" THEN Dead(s3) ELSE OkResult(s3, [type |-> JSON_OBJECT, value |-> object])

\* if (*str->ptr != '}') return ErrResult; consume_char(str);
object_close(s2, object) ==
    IF s2.st # "run" THEN Dead(s2)
    ELSE IF Cur(s2) # Ch.rbrace THEN ErrResult(s2)
    ELSE object_result(consume_char(s2), object)

object_done(lp, object) ==
    IF lp.s.st # "run" THEN Dead(lp.s)
    ELSE IF lp.error THEN ErrResult(lp.s)
    ELSE object_close(Deref(lp.s), object)

\* JsonObject *object = new (JsonObject), the region a, and the loop
object_body(s1, a) ==
    IF a.st # "ok" THEN Dead([s1 EXCEPT !.st = a.st])
    ELSE object_done(object_loop([s |-> [s1 EXCEPT !.mem = a.mem], error |-> FALSE, more |-> TRUE], a.ptr),
                     a.ptr)

object_alloc(s1) ==
    IF s1.st # "run" THEN Dead(s1) ELSE object_body(s1, New(s1.mem, SizeofArray))

\* if (*str->ptr != '{') return ErrResult; consume_char(str);
object_open(s0) ==
    IF s0.st # "run" THEN Dead(s0)
    ELSE IF Cur(s0) # Ch.lbrace THEN ErrResult(s0)
    ELSE object_alloc(consume_char(s0))

decode_json_object(s) == object_open(Deref(s))

\* switch (*str->ptr)
value_switch(s1) ==
    IF s1.st # "run" THEN Dead(s1)
    ELSE IF Cur(s1) = Ch.n THEN decode_json_null(s1)
    ELSE IF Cur(s1) = Ch.t THEN decode_json_true(s1)
    ELSE IF Cur(s1) = Ch.f THEN decode_json_false(s1)
    ELSE IF is_digit(Cur(s1)) \/ Cur(s1) = Ch.minus THEN decode_json_number(s1)
    ELSE IF Cur(s1) = Ch.quote THEN decode_json_string(s1)
    ELSE IF Cur(s1) = Ch.lbrack THEN decode_json_array(s1)
    ELSE IF Cur(s1) = Ch.lbrace THEN decode_json_object(s1)
    ELSE ErrResult(s1)

\* The statement "if (str->len == 0) ErrResult;" of the source has no return:
\* it evaluates the compound literal and falls through to the switch, which
\* reads *str->ptr whatever the length of the view.
decode_json_value(s) == value_switch(Deref(trim_left(s)))

\* the view sv_from_cstr(in, Len(in)) over memory whose next byte is past
View(in, past, M) ==
    [in |-> in, past |-> past, pos |-> 0, mem |-> M, st |-> "run", oob |-> FALSE, failed |-> FALSE]

\* decode_json without "if (str.len != 0) return ErrResult"
decode_json_return_leftover(result) ==
    [st     |-> IF result.s.st = "run" THEN "returned" ELSE result.s.st,
     error  |-> result.s.st # "run" \/ result.error,
     value  |-> IF result.s.st # "run" \/ result.error THEN ZeroValue ELSE result.value,
     vpos   |-> result.s.pos,
     verror |-> result.s.st # "run" \/ result.error,
     vvalue |-> result.value,
     oob    |-> result.s.oob,
     behind |-> IF result.s.oob THEN <<result.s.past>> ELSE <<>>,
     failed |-> result.s.failed,
     mem    |-> result.s.mem]

\* if (str.len != 0) return ErrResult; return result;
\* The outcome records, beside the JsonResult (error, value): st, "returned"
\* or how the process ended; vpos, verror and vvalue, the bytes consumed, the
\* error flag and the value when decode_json_value returned; oob and failed of
\* the decoding state;
\* behind, the byte an out-of-bounds read found; and the memory the call left.
decode_json_return(result) ==
    [st     |-> IF result.s.st = "run" THEN "returned" ELSE result.s.st,
     error  |-> result.s.st # "run" \/ result.error \/ ViewLen(result.s) # 0,
     value  |-> IF result.s.st # "run" \/ result.error \/ ViewLen(result.s) # 0
                THEN ZeroValue ELSE result.value,
     vpos   |-> result.s.pos,
     verror |-> result.s.st # "run" \/ result.error,
     vvalue |-> result.value,
     oob    |-> result.s.oob,
     behind |-> IF result.s.oob THEN <<result.s.past>> ELSE <<>>,
     failed |-> result.s.failed,
     mem    |-> result.s.mem]

decode_json(in, past, M) == decode_json_return(decode_json_value(View(in, past, M)))

(***************************************************************************)
(* The tree a JsonValue denotes: what a reader following the pointers of   *)
(* the value finds in memory.  A pointer that is not the address of an     *)
(* allocation, or a type tag that is no JsonType, reads as "wild".         *)
(***************************************************************************)
Tree(kind, payload) == [k |-> kind, v |-> payload]

Wild == Tree("wild", 0)

\* the bytes of the String at address a
StringBytes(heap, a) ==
    IF ArrLen(heap, a) = 0 THEN <<>> ELSE Load(heap, ArrPtr(heap, a), 0, ArrLen(heap, a))

ValidArr(heap, a) ==
    /\ a \in DOMAIN heap
    /\ ArrLen(heap, a) > 0 => ArrPtr(heap, a) \in DOMAIN heap

RECURSIVE TreeOf(_, _)
TreeOf(heap, v) ==
    CASE v.type = JSON_NULL -> Tree("null", 0)
      [] v.type = JSON_TRUE -> Tree("true", 0)
      [] v.type = JSON_FALSE -> Tree("false", 0)
      [] v.type = JSON_NUMBER ->
            IF v.value \in DOMAIN heap THEN Tree("num", DoubleOf(heap[v.value])) ELSE Wild
      [] v.type = JSON_STRING ->
            IF ValidArr(heap, v.value) THEN Tree("str", StringBytes(heap, v.value)) ELSE Wild
      [] v.type = JSON_ARRAY ->
            IF ValidArr(heap, v.value)
            THEN Tree("arr", [i \in 1..ArrLen(heap, v.value) |->
                                TreeOf(heap, ValueOf(ArrElem(heap, v.value, i - 1, SizeofValue)))])
            ELSE Wild
      [] v.type = JSON_OBJECT ->
            IF ValidArr(heap, v.value)
            THEN Tree("obj", [i \in 1..ArrLen(heap, v.value) |->
                    LET prop == PropertyOf(ArrElem(heap, v.value, i - 1, SizeofProperty))
                    IN  [key |-> IF ValidArr(heap, prop.key)
                                 THEN Tree("str", StringBytes(heap, prop.key)) ELSE Wild,
                         val |-> TreeOf(heap, prop.value)]])
            ELSE Wild
      [] OTHER -> Wild

(***************************************************************************)
(* The encoder.  The stream is the sequence of bytes written; st is "ok",  *)
(* "ub" (a pointer that is no allocation was dereferenced), "panic" (the   *)
(* default case) or "unmodelled" (a number outside the %g cases modelled). *)
(***************************************************************************)
RECURSIVE Digits(_)
Digits(n) == IF n < 10 THEN <<Ch.d0 + n>> ELSE Digits(n \div 10) \o <<Ch.d0 + (n % 10)>>

RECURSIVE Pow10(_)
Pow10(k) == IF k = 0 THEN 1 ELSE 10 * Pow10(k - 1)

\* the digits of n, zero-padded on the left to k places
RECURSIVE Padded(_, _)
Padded(n, k) == IF k = 0 THEN <<>> ELSE Padded(n \div 10, k - 1) \o <<Ch.d0 + (n % 10)>>

\* fprintf("%g") of a double with at most 6 significant digits and a decimal
\* exponent in -4..5 (or zero): fixed notation, trailing zeros removed
InFixedRange(d) ==
    LET c == Normal(d) IN c.m = 0 \/ (c.m < 1000000 /\ c.e <= 4)

printf_g(d) ==
    LET c == Normal(d)
    IN  (IF c.neg THEN <<Ch.minus>> ELSE <<>>)
        \o Digits(c.m \div Pow10(c.e))
        \o (IF c.e > 0 THEN <<Ch.dot>> \o Padded(c.m % Pow10(c.e), c.e) ELSE <<>>)

\* fprintf("%.*s", precision, ptr): at most precision bytes, ending at a NUL
RECURSIVE printf_s(_, _)
printf_s(precision, bytes) ==
    IF precision = 0 \/ bytes = <<>> \/ Head(bytes) = Ch.nul THEN <<>>
    ELSE <<Head(bytes)>> \o printf_s(precision - 1, Tail(bytes))

\* fprintf("\"%.*s\"", (int)value->len, value->ptr) for the String at address a
encode_string(heap, a) ==
    IF ~ValidArr(heap, a) THEN [st |-> "ub", out |-> <<>>]
    ELSE [st |-> "ok",
          out |-> <<Ch.quote>> \o printf_s(ArrLen(heap, a), StringBytes(heap, a)) \o <<Ch.quote>>]

RECURSIVE encode_json(_, _)

Written(bytes) == [st |-> "ok", out |-> bytes]

\* two writes in sequence; a write that ends the process ends the stream
Then(w1, w2) == IF w1.st # "ok" THEN w1 ELSE [st |-> w2.st, out |-> w1.out \o w2.out]

\* the body of the for loop of the JSON_ARRAY case at index i
encode_element(heap, value, i) ==
    Then(encode_json(heap, ValueOf(ArrElem(heap, value, i, SizeofValue))),
         Written(IF i < ArrLen(heap, value) - 1 THEN <<Ch.comma>> ELSE <<>>))

\* the for loop of the JSON_ARRAY case, from index i, after the writes w
RECURSIVE encode_array_loop(_, _, _, _)
encode_array_loop(heap, value, i, w) ==
    IF w.st # "ok" \/ ~(i < ArrLen(heap, value)) THEN w
    ELSE encode_array_loop(heap, value, i + 1, Then(w, encode_element(heap, value, i)))

\* the body of the for loop of the JSON_OBJECT case for the property prop
encode_property(heap, prop) ==
    Then(encode_string(heap, prop.key),
    Then(Written(<<Ch.sp, Ch.colon, Ch.sp>>),
         encode_json(heap, prop.value)))

\* the body of the for loop of the JSON_OBJECT case at index i
encode_entry(heap, value, i) ==
    Then(encode_property(heap, PropertyOf(ArrElem(heap, value, i, SizeofProperty))),
         Written(IF i < ArrLen(heap, value) - 1 THEN <<Ch.comma>> ELSE <<>>))

\* the for loop of the JSON_OBJECT case, from index i, after the writes w
RECURSIVE encode_object_loop(_, _, _, _)
encode_object_loop(heap, value, i, w) ==
    IF w.st # "ok" \/ ~(i < ArrLen(heap, value)) THEN w
    ELSE encode_object_loop(heap, value, i + 1, Then(w, encode_entry(heap, value, i)))

encode_number(heap, a) ==
    IF a \notin DOMAIN heap THEN [st |-> "ub", out |-> <<>>]
    ELSE IF ~InFixedRange(DoubleOf(heap[a])) THEN [st |-> "unmodelled", out |-> <<>>]
    ELSE Written(printf_g(DoubleOf(heap[a])))

encode_json(heap, root) ==
    CASE root.type = JSON_NULL -> Written(<<Ch.n, Ch.u, Ch.l, Ch.l>>)
      [] root.type = JSON_TRUE -> Written(<<Ch.t, Ch.r, Ch.u, Ch.e>>)
      [] root.type = JSON_FALSE -> Written(<<Ch.f, Ch.a, Ch.l, Ch.s, Ch.e>>)
      [] root.type = JSON_NUMBER -> encode_number(heap, root.value)
      [] root.type = JSON_STRING -> encode_string(heap, root.value)
      [] root.type = JSON_ARRAY ->
            IF ~ValidArr(heap, root.value) THEN [st |-> "ub", out |-> <<>>]
            ELSE Then(encode_array_loop(heap, root.value, 0, Written(<<Ch.lbrack, Ch.sp>>)),
                      Written(<<Ch.rbrack, Ch.sp>>))
      [] root.type = JSON_OBJECT ->
            IF ~ValidArr(heap, root.value) THEN [st |-> "ub", out |-> <<>>]
            ELSE Then(encode_object_loop(heap, root.value, 0, Written(<<Ch.lbrace, Ch.sp>>)),
                      Written(<<Ch.rbrace, Ch.sp>>))
      [] OTHER -> [st |-> "panic", out |-> <<>>]

(***************************************************************************)
(* Decoder specification: a caller that decodes one input, encodes the     *)
(* decoded value and decodes the encoded text again (main, followed by a   *)
(* second decode).  Inputs are drawn from: JSON texts written from bounded *)
(* trees, their truncations and one-byte corruptions, number texts, and    *)
(* all concatenations of a few fragments.                                  *)
(***************************************************************************)
\* children of a collection of the small trees
MaxWidth == 2
\* elements of the long collections and strings (one more than ARRAY_INIT_CAP
\* makes the buffer grow)
MaxElems == 11
\* fragments concatenated into a raw input
MaxFrags == 3
\* bytes of a number text before its terminator
MaxNumLen == 4
\* (true is decoded by the rendered inputs, the other whitespace and the NUL by
\* the number texts)

SeqsUpTo(S, n) == UNION {[1..k -> S] : k \in 0..n}

RECURSIVE Flatten(_)
Flatten(ss) == IF ss = <<>> THEN <<>> ELSE Head(ss) \o Flatten(Tail(ss))

Num(neg, m, e) == Tree("num", [neg |-> neg, m |-> m, e |-> e])

Leaves ==
    {Tree("null", 0), Tree("true", 0), Tree("false", 0), Num(FALSE, 1, 0), Num(TRUE, 25, 1),
     Tree("str", <<>>), Tree("str", <<Ch.a, Ch.b>>), Tree("str", <<Ch.a, Ch.nul, Ch.b>>)}

Keys == {Tree("str", <<Ch.a>>), Tree("str", <<Ch.b>>)}

Arrays(elems, n) == {Tree("arr", es) : es \in SeqsUpTo(elems, n)}

Objects(elems, n) ==
    {Tree("obj", ps) : ps \in SeqsUpTo({[key |-> k, val |-> e] : k \in Keys, e \in elems}, n)}

FlatElems == {Tree("null", 0), Num(FALSE, 1, 0), Tree("str", <<Ch.a, Ch.b>>)}

FlatTrees == Arrays(FlatElems, MaxWidth) \cup Objects(FlatElems, MaxWidth)

SmallTrees == Arrays(Leaves, 1) \cup Objects(Leaves, 1)

NestedTrees ==
    {Tree("arr", <<c>>) : c \in SmallTrees}
    \cup {Tree("arr", <<c, Tree("true", 0)>>) : c \in SmallTrees}
    \cup {Tree("obj", <<[key |-> Tree("str", <<Ch.a>>), val |-> c]>>) : c \in SmallTrees}
    \cup {Tree("arr", <<Tree("arr", <<Tree("arr", <<c>>)>>)>>) : c \in {Tree("arr", <<>>), Tree("obj", <<>>)}}

LongElems == {Tree("true", 0), Tree("str", <<Ch.a>>), Num(FALSE, 2, 0)}

LongSeq(first, rest, n) == [i \in 1..n |-> IF i = 1 THEN first ELSE rest]

LongTrees ==
    UNION {
        {Tree("arr", LongSeq(f, r, n)) : f \in LongElems, r \in LongElems}
        \cup {Tree("obj", LongSeq([key |-> Tree("str", <<Ch.a>>), val |-> f],
                                  [key |-> Tree("str", <<Ch.b>>), val |-> r], n))
                 : f \in LongElems, r \in LongElems}
        \cup {Tree("str", LongSeq(Ch.a, Ch.b, n))}
        : n \in (MaxElems - 1)..MaxElems}

Trees == Leaves \cup FlatTrees \cup NestedTrees \cup LongTrees

\* the first capacity in cap, 2 cap, 4 cap, ... whose storage, for elements of
\* esz bytes, does not fit a fresh block of the default arena
RECURSIVE GrowthCap(_, _)
GrowthCap(cap, esz) ==
    IF ~(align(cap * esz, 8) < align(ARENA_DEFAULT_CAP, 8)) THEN cap ELSE GrowthCap(cap * 2, esz)

\* the append that asks for that storage: the one after the buffer filled the
\* capacity before it
GrowthLen(esz) == GrowthCap(ARRAY_INIT_CAP, esz) \div 2 + 1

\* an array and an object that stop one element short of that append, and
\* ones that make it
GrownTrees ==
    UNION {
        {Tree("arr", [i \in 1..(GrowthLen(SizeofValue) - k) |-> Tree("true", 0)]),
         Tree("obj", [i \in 1..(GrowthLen(SizeofProperty) - k) |->
                         [key |-> Tree("str", <<Ch.a>>), val |-> Tree("null", 0)]])}
        : k \in {0, 1}}

\* A JSON writer for the trees: style 0 writes no whitespace, style 1 a space
\* wherever the grammar of the decoder skips whitespace.
Gap(style) == IF style = 1 THEN <<Ch.sp>> ELSE <<>>

RECURSIVE Render(_, _)
RECURSIVE RenderItems(_, _, _)
Render(t, style) ==
    CASE t.k = "null" -> <<Ch.n, Ch.u, Ch.l, Ch.l>>
      [] t.k = "true" -> <<Ch.t, Ch.r, Ch.u, Ch.e>>
      [] t.k = "false" -> <<Ch.f, Ch.a, Ch.l, Ch.s, Ch.e>>
      [] t.k = "num" -> printf_g(t.v)
      [] t.k = "str" -> <<Ch.quote>> \o t.v \o <<Ch.quote>>
      [] t.k = "arr" -> <<Ch.lbrack>> \o Gap(style) \o RenderItems(t.v, FALSE, style) \o <<Ch.rbrack>>
      [] t.k = "obj" -> <<Ch.lbrace>> \o Gap(style) \o RenderItems(t.v, TRUE, style) \o <<Ch.rbrace>>

RenderItems(items_, keyed, style) ==
    IF items_ = <<>> THEN <<>>
    ELSE (IF keyed
          THEN Render(Head(items_).key, style) \o <<Ch.colon>> \o Gap(style) \o Render(Head(items_).val, style)
          ELSE Render(Head(items_), style))
         \o Gap(style)
         \o (IF Len(items_) > 1 THEN <<Ch.comma>> \o Gap(style) ELSE <<>>)
         \o RenderItems(Tail(items_), keyed, style)

NoTree == Tree("none", 0)

RenderedCases ==
    {[input |-> Gap(style) \o Render(t, style), origin |-> [kind |-> "tree", tree |-> t]]
        : t \in Trees, style \in {0, 1}}

\* every proper prefix of a written text, and every text with one byte replaced by 'x'
CutCases ==
    UNION {{[input |-> SubSeq(Render(t, 0), 1, n), origin |-> [kind |-> "cut", tree |-> NoTree]]
               : n \in 0..(Len(Render(t, 0)) - 1)}
           : t \in Leaves \cup FlatTrees \cup NestedTrees}

SpoiledCases ==
    UNION {{[input |-> [Render(t, 0) EXCEPT ![n] = Ch.x], origin |-> [kind |-> "spoiled", tree |-> NoTree]]
               : n \in 1..Len(Render(t, 0))}
           : t \in SmallTrees \cup NestedTrees}

NumBody == {Ch.minus, Ch.dot, Ch.d1, Ch.d2}

NumTails ==
    {<<>>} \cup {<<c>> : c \in {Ch.comma, Ch.rbrack, Ch.rbrace, Ch.sp, Ch.tab, Ch.lf, Ch.cr,
                                Ch.nul, Ch.colon, Ch.x}}

NumberCases ==
    {[input |-> body \o tail, origin |-> [kind |-> "number", tree |-> NoTree]]
        : body \in SeqsUpTo(NumBody, MaxNumLen), tail \in NumTails}

Fragments ==
    {<<Ch.lbrack>>, <<Ch.rbrack>>, <<Ch.lbrace>>, <<Ch.rbrace>>, <<Ch.quote>>, <<Ch.colon>>,
     <<Ch.comma>>, <<Ch.d1>>, <<Ch.sp>>, <<Ch.tab>>, <<Ch.x>>,
     <<Ch.n, Ch.u, Ch.l, Ch.l>>, <<Ch.f, Ch.a, Ch.l, Ch.s, Ch.e>>, <<Ch.n, Ch.u, Ch.l>>}

RawCases ==
    {[input |-> Flatten(fs), origin |-> [kind |-> "raw", tree |-> NoTree]]
        : fs \in SeqsUpTo(Fragments, MaxFrags)}

GrownCases == {[input |-> Render(t, 0), origin |-> [kind |-> "grown", tree |-> t]] : t \in GrownTrees}

InputCases ==
    RenderedCases \cup CutCases \cup SpoiledCases \cup NumberCases \cup RawCases \cup GrownCases

\* what may lie behind the last byte of the view: the terminating NUL of a C
\* string, any byte the decoder dispatches or stops on, another byte, or
\* nothing readable
PastBytes ==
    {Ch.nul, Ch.d1, Ch.minus, Ch.quote, Ch.lbrack, Ch.rbrack, Ch.lbrace, Ch.rbrace,
     Ch.comma, Ch.colon, Ch.sp, Ch.n, Ch.x, Unmapped}

\* The outcomes of decode_json(in) for every byte that may lie behind the view.
\* A run that never dereferences the empty view does not depend on that byte.
Outcomes(in, M, probe) ==
    IF ~probe.oob THEN {probe} ELSE {decode_json(in, past, M) : past \in PastBytes}

DecodeOutcomes(in, M) == Outcomes(in, M, decode_json(in, Ch.nul, M))

Outcome(out) == [f \in DOMAIN out \ {"mem"} |-> out[f]]

\* DEFAULT_ARENA = arena_default_new(); the view is handed to the caller
Init ==
    /\ \E c \in InputCases : input = c.input /\ origin = c.origin
    /\ mem = EmptyMem(ARENA_DEFAULT_CAP)
    /\ phase = "start"
    /\ run = NoRun /\ text = NoRun /\ rerun = NoRun
    /\ regions = <<>> /\ lastAlloc = NoAlloc
    /\ buf = 0 /\ elemKind = "none" /\ items = <<>>

\* JsonResult result = decode_json(view)
Decode ==
    /\ phase = "start"
    /\ \E out \in DecodeOutcomes(input, mem) : run' = Outcome(out) /\ mem' = out.mem
    /\ phase' = "decoded"
    /\ UNCHANGED <<regions, lastAlloc, buf, elemKind, items, input, origin, text, rerun>>

\* encode_json(stdout, result.value), after a successful decode
Encode ==
    /\ phase = "decoded"
    /\ run.st = "returned" /\ ~run.error
    /\ text' = encode_json(mem.heap, run.value)
    /\ phase' = "encoded"
    /\ UNCHANGED <<mem, regions, lastAlloc, buf, elemKind, items, input, origin, run, rerun>>

\* decode_json over the text that encode_json wrote
Redecode ==
    /\ phase = "encoded"
    /\ text.st = "ok"
    /\ \E out \in DecodeOutcomes(text.out, mem) : rerun' = Outcome(out) /\ mem' = out.mem
    /\ phase' = "redecoded"
    /\ UNCHANGED <<regions, lastAlloc, buf, elemKind, items, input, origin, run, text>>

Next == Decode \/ Encode \/ Redecode

Spec == Init /\ [][Next]_vars

(***************************************************************************)
(* Properties of the decoder specification.                                *)
(***************************************************************************)
Decoded == phase \in {"decoded", "encoded", "redecoded"}

\* the tree that the first decode_json returned
DecodedTree == TreeOf(mem.heap, run.value)

\* C1: a decode_json that returns success has consumed the whole view; a view
\* whose value is followed by at least one more byte is a failure; and the
\* texts written with a leading space before the value are accepted.  This
\* holds of the call on the input and of the call on the encoder's text.
C1_SuccessConsumesWholeInput ==
    /\ Decoded =>
          /\ (run.st = "returned" /\ ~run.error) => run.vpos = Len(input)
          /\ (run.st = "returned" /\ ~run.verror /\ run.vpos < Len(input)) => run.error
          /\ (origin.kind = "tree" /\ input # <<>> /\ is_whitespace(input[1])) =>
                 (run.st = "returned" /\ ~run.error)
    /\ phase = "redecoded" =>
          /\ (rerun.st = "returned" /\ ~rerun.error) => rerun.vpos = Len(text.out)
          /\ (rerun.st = "returned" /\ ~rerun.verror /\ rerun.vpos < Len(text.out)) => rerun.error

\* C1 witness: a value that closes with ']', '}', '"' or a keyword's last
\* letter, followed by one whitespace byte, was decoded and reported as failure.
C1_Witness ==
    /\ phase = "decoded" /\ run.st = "returned"
    /\ ~run.verror /\ run.vpos = Len(input) - 1 /\ run.vpos > 0
    /\ input[run.vpos] \in {Ch.rbrack, Ch.rbrace, Ch.quote, Ch.l}
    /\ is_whitespace(input[Len(input)])
    /\ run.error

RECURSIVE Plain(_)
\* a tree of Null, True, False, String, Array and Object nodes only
Plain(t) ==
    CASE t.k \in {"null", "true", "false", "str"} -> TRUE
      [] t.k = "arr" -> \A i \in 1..Len(t.v) : Plain(t.v[i])
      [] t.k = "obj" -> \A i \in 1..Len(t.v) : t.v[i].key.k = "str" /\ Plain(t.v[i].val)
      [] OTHER -> FALSE

\* C2: for an accepted input whose tree holds only Null, True, False, String,
\* Array and Object nodes, encode_json writes a text, decode_json accepts that
\* text, and the tree it decodes to equals the first tree.
C2_RoundTrip ==
    (phase \in {"encoded", "redecoded"} /\ Plain(DecodedTree)) =>
        /\ text.st = "ok"
        /\ phase = "redecoded" =>
              /\ rerun.st = "returned" /\ ~rerun.error
              /\ TreeOf(mem.heap, rerun.value) = DecodedTree

\* C4: decode_json of the empty input and of a whitespace-only input returns a
\* failure, and it does so without reading a character of the empty view.
C4_EmptyLookaheadFails ==
    (Decoded /\ \A i \in 1..Len(input) : is_whitespace(input[i])) =>
        /\ run.st = "returned" /\ run.error
        /\ ~run.oob

\* C5: when some production failed during a decode_json call, the call returns
\* failure, decode_json_value returned failure, and the value returned is the
\* zero JsonValue: no partially built array or object.
C5_FailurePropagates ==
    /\ (Decoded /\ run.st = "returned" /\ run.failed) =>
          /\ run.verror /\ run.error
          /\ run.vvalue = ZeroValue /\ run.value = ZeroValue
    /\ (phase = "redecoded" /\ rerun.st = "returned" /\ rerun.failed) =>
          /\ rerun.verror /\ rerun.error
          /\ rerun.vvalue = ZeroValue /\ rerun.value = ZeroValue

\* C5 witness: decode_json returned failure for an array or object in which a
\* nested production failed after at least one element had been appended.
C5_Witness ==
    /\ phase = "decoded" /\ run.st = "returned" /\ run.failed /\ run.error
    /\ origin.kind = "spoiled"
    /\ input[1] \in {Ch.lbrack, Ch.lbrace}
    /\ \E i \in 1..run.vpos : input[i] = Ch.comma

RECURSIVE WellFormed(_)
\* a tree whose every pointer is the address of an allocation and whose numbers
\* are among those that the model of %g covers
WellFormed(t) ==
    CASE t.k \in {"null", "true", "false", "str"} -> TRUE
      [] t.k = "num" -> InFixedRange(t.v)
      [] t.k = "arr" -> \A i \in 1..Len(t.v) : WellFormed(t.v[i])
      [] t.k = "obj" -> \A i \in 1..Len(t.v) : t.v[i].key.k = "str" /\ WellFormed(t.v[i].val)
      [] OTHER -> FALSE

RECURSIVE Joined(_)
\* the texts of a sequence, with a comma between two of them and none at the end
Joined(texts) ==
    IF texts = <<>> THEN <<>>
    ELSE IF Len(texts) = 1 THEN texts[1]
    ELSE texts[1] \o <<Ch.comma>> \o Joined(Tail(texts))

RECURSIVE Template(_)
\* the text specified for a tree
Template(t) ==
    CASE t.k = "null" -> <<Ch.n, Ch.u, Ch.l, Ch.l>>
      [] t.k = "true" -> <<Ch.t, Ch.r, Ch.u, Ch.e>>
      [] t.k = "false" -> <<Ch.f, Ch.a, Ch.l, Ch.s, Ch.e>>
      [] t.k = "num" -> printf_g(t.v)
      [] t.k = "str" -> <<Ch.quote>> \o t.v \o <<Ch.quote>>
      [] t.k = "arr" ->
            <<Ch.lbrack, Ch.sp>> \o Joined([i \in 1..Len(t.v) |-> Template(t.v[i])]) \o <<Ch.rbrack, Ch.sp>>
      [] t.k = "obj" ->
            <<Ch.lbrace, Ch.sp>>
            \o Joined([i \in 1..Len(t.v) |->
                          Template(t.v[i].key) \o <<Ch.sp, Ch.colon, Ch.sp>> \o Template(t.v[i].val)])
            \o <<Ch.rbrace, Ch.sp>>

\* C6: for a well-formed tree encode_json writes exactly the specified text:
\* "[ " e1 "," ... "," en "] ", "[ ] ", "{ " "k1" " : " v1 "," ... "} ",
\* "{ } ", a string as its raw bytes between double quotes, null, true, false.
C6_EncodeWritesTemplate ==
    (phase \in {"encoded", "redecoded"} /\ WellFormed(DecodedTree)) =>
        /\ text.st = "ok"
        /\ text.out = Template(DecodedTree)

\* C8: the tree decoded from an accepted text holds, for every array and object
\* of the text, one child or (key, value) pair per element or entry, in the
\* order of the text, entries with a repeated key included.
C8_CollectionsKeepOrder ==
    (Decoded /\ origin.kind = "tree" /\ run.st = "returned" /\ ~run.error) =>
        DecodedTree = origin.tree

\* the first index of the text that holds a byte decode_json_number stops at
\* without consuming it, or one past the text
RECURSIVE NumberEnd(_, _)
NumberEnd(in, i) ==
    IF i > Len(in) \/ in[i] \in {Ch.comma, Ch.rbrack, Ch.rbrace} \/ is_whitespace(in[i]) THEN i
    ELSE NumberEnd(in, i + 1)

\* the bytes of the number text in, between the optional '-' and the stop
NumberBody(in) == SubSeq(in, IF in[1] = Ch.minus THEN 2 ELSE 1, NumberEnd(in, 1) - 1)

\* the indices of body that hold neither a digit nor the first '.'
Offending(body) ==
    {i \in 1..Len(body) :
        ~is_digit(body[i]) /\ ~(body[i] = Ch.dot /\ \A j \in 1..(i - 1) : body[j] # Ch.dot)}

Least(S) == CHOOSE i \in S : \A j \in S : i <= j

\* the decimal integer that a sequence of digits denotes
RECURSIVE Decimal(_)
Decimal(digits) ==
    IF digits = <<>> THEN 0
    ELSE (Head(digits) - Ch.d0) * Pow10(Len(digits) - 1) + Decimal(Tail(digits))

\* C10: on a text that begins with '-' or a digit, decode_json_number accepts
\* exactly an optional '-' followed by digits and at most one '.', up to the
\* first ',', ']', '}', whitespace or the end, which it does not consume; it
\* fails at the first other byte; and an accepted text without '.' decodes to
\* the decimal integer of its digits, negated after a '-'.
C10_NumberGrammar ==
    (Decoded /\ input # <<>> /\ (input[1] = Ch.minus \/ is_digit(input[1]))) =>
        LET sign == IF input[1] = Ch.minus THEN 1 ELSE 0
            body == NumberBody(input)
        IN  /\ run.st = "returned"
            /\ run.verror <=> Offending(body) # {}
            /\ run.verror => run.vpos = sign + Least(Offending(body)) - 1
            /\ ~run.verror => run.vpos = NumberEnd(input, 1) - 1
            /\ (~run.verror /\ \A i \in 1..Len(body) : body[i] # Ch.dot) =>
                   TreeOf(mem.heap, run.vvalue) = Num(sign = 1, Decimal(body), 0)

\* C10 witness: "-12," was decoded: the number -12 accepted, the ',' left in
\* the view.
C10_Witness ==
    /\ phase = "decoded"
    /\ input = <<Ch.minus, Ch.d1, Ch.d2, Ch.comma>>
    /\ ~run.verror /\ run.vpos = 3
    /\ TreeOf(mem.heap, run.vvalue) = Num(TRUE, 12, 0)

\* C11: during decode_json of an input that holds a byte other than
\* whitespace (truncated texts such as "[", "[1", "[1,", "{", "{"a"", "{"a":1"
\* and "{"a":1," among them), no production evaluates *str->ptr while
\* str->len == 0, and the assertion of consume_char holds at every call.
C11_ReadsStayInsideView ==
    (Decoded /\ \E i \in 1..Len(input) : ~is_whitespace(input[i])) =>
        /\ ~run.oob
        /\ run.st # "abort"

\* C12: decode_json terminates on every input: whenever the decoder reads
\* inside the view, the call returns success or failure, the inputs included
\* whose string, array or object grows until the storage asked for reaches
\* the capacity of an arena block.
C12_DecodeTerminates ==
    /\ (Decoded /\ ~run.oob) => run.st = "returned"
    /\ (phase = "redecoded" /\ ~rerun.oob) => rerun.st = "returned"


====
